---- MODULE Spec2Model ----
(***************************************************************************)
(* Model of the LangChain RAG sample application: the request handlers    *)
(* for chat, ask, memory, upload, summarize and documents, over the       *)
(* process-wide state they share (the per-user BufferMemory map, the      *)
(* MemoryVectorStore and the document metadata map).                      *)
(*                                                                         *)
(* The repository holds several drafts of every handler.  The variable    *)
(* `build` fixes which draft serves the requests of a run:                *)
(*   "api"        api/chat.js, api/upload.js (upload and ask),            *)
(*                api/summarize.js, api/documents.js, api/memory.js       *)
(*   "api_rev"    the revised drafts of api/chat.js, api/ask.js and       *)
(*                api/upload.js (unnamed/part_001, part_005, part_003)    *)
(*   "server"     the single-file express app api/server.js               *)
(*   "server_rev" its revision unnamed/part_004                           *)
(* The text upload draft (unnamed/part_002) is served in both api builds. *)
(*                                                                         *)
(* A handler runs without interruption between two awaits of a network or *)
(* file operation; each such await is a position (pc) of the request, and *)
(* its resolution is one action.                                          *)
(*                                                                         *)
(* The variable `app` is the express app of the two bootstraps that mount  *)
(* the api modules (api/index.js and the root server.js, unnamed/part_000).*)
(* It stays NotStarted where the handlers are called directly.             *)
(***************************************************************************)
EXTENDS Integers, Sequences, FiniteSets, TLC

VARIABLES
  build,             \* which draft of the handlers is deployed
  ready,             \* embeddings, chatModel and vectorStore were constructed
  userMemories,      \* Map userId -> BufferMemory (0: no entry), by reference
  chatHistory,       \* the messages of every BufferMemory ever constructed
  vectorStore,       \* MemoryVectorStore.memoryVectors, in insertion order
  documentsMetadata, \* Map documentId -> record, in insertion order
  uuid,              \* number of uuidv4() values drawn so far
  reqs,              \* the handler invocations, in order of arrival
  app                \* the express app: its router stack and its bootstrap

vars == <<build, ready, userMemories, chatHistory, vectorStore,
          documentsMetadata, uuid, reqs, app>>

-----------------------------------------------------------------------------
(* Bounds of the model *)

MaxCalls == 2

MaxSeqCalls == 3

MaxUploads == 2

MaxRagCalls == 3

(* Program constants *)

chunkSize == 1000

chunkOverlap == 200

AskK == 3

AskKServer == 4

SummarizeK == 200

SummarizeKServer == 100

SummaryLimit == 3000

RecentMessages == 10

-----------------------------------------------------------------------------
(* Inputs *)

Builds == {"api", "api_rev", "server", "server_rev"}

ApiBuilds == {"api", "api_rev"}

Undefined == "undefined"

Users == {"default", "u1"}

UserInputs == {Undefined, "u1"}

\* "" stands for a missing or empty message/question
Messages == {"", "hello", "hi again"}

Questions == {"", "what is RAG"}

Replies == {"reply"}

\* An uploaded file: its name and the text of each page that PDFLoader
\* returns (no page: a scan).  The text of a page is given by the lengths of
\* its paragraphs, which "\n\n" separates; a paragraph holds no separator, as
\* "A" x 2500 does not.  <<0>> is a page of whitespace only, which the
\* splitter trims to nothing.
NoFile == [id |-> "none", filename |-> "", pages |-> <<>>]

Files ==
  { [id |-> "A",     filename |-> "a.pdf",    pages |-> << <<2500>> >>],
    [id |-> "B",     filename |-> "a.pdf",    pages |-> << <<900>>, <<1200>> >>],
    [id |-> "BIG",   filename |-> "big.pdf",  pages |-> << <<81000>> >>],
    [id |-> "SCAN",  filename |-> "scan.pdf", pages |-> <<>>],
    [id |-> "BLANK", filename |-> "blank.pdf", pages |-> << <<0>> >>] }

\* the texts posted as JSON ({ text, filename }): one of 1500 characters, and
\* one of 2500 characters in five paragraphs
Texts ==
  { [id |-> "T", filename |-> "notes.txt", pages |-> << <<1500>> >>],
    [id |-> "P", filename |-> "essay.txt",
     pages |-> << <<498, 498, 498, 498, 500>> >>] }

\* what fails while the upload is read: nothing, fs.copyFile, PDFLoader.load
Faults == {"none", "copy", "load"}

\* the literal texts given to summarize, by length (0: none given)
SummaryTexts == {0, 3500}

Degraded == "I'm having trouble generating a response right now."

-----------------------------------------------------------------------------
(* Helpers *)

envVars == <<build, ready, app>>

sessionVars == <<userMemories, chatHistory>>

storeVars == <<vectorStore, documentsMetadata, uuid>>

Min(a, b) == IF a < b THEN a ELSE b

IsPrefix(s, t) == Len(s) <= Len(t) /\ SubSeq(t, 1, Len(s)) = s

Reverse(s) == [i \in 1..Len(s) |-> s[Len(s) + 1 - i]]

HumanMessage(content) == [type |-> "human", content |-> content]

AIMessage(content) == [type |-> "ai", content |-> content]

\* const { userId = "default" } = req.body
DefaultUser(userId) == IF userId = Undefined THEN "default" ELSE userId

\* The messages of the session the map holds for userId (none: empty).
SessionHistory(u) ==
  IF userMemories[u] = 0 THEN <<>> ELSE chatHistory[userMemories[u]]

EmptyReq ==
  [op |-> "", pc |-> "done",
   userId |-> "", input |-> "", clearMemory |-> FALSE,
   memory |-> 0, seen |-> <<>>, relevantDocs |-> <<>>,
   searchError |-> FALSE, genError |-> FALSE,
   status |-> 0, error |-> "", answer |-> "",
   memoryLength |-> 0, sources |-> <<>>, relevantChunks |-> 0,
   success |-> FALSE,
   kind |-> "", file |-> NoFile, docsWithMeta |-> <<>>, statError |-> FALSE,
   documentId |-> 0, chunks |-> 0,
   documentChunks |-> <<>>, textToSummarize |-> <<>>, inputText |-> <<>>,
   originalLength |-> 0, documents |-> <<>>]

\* a validation that lets everything through
MissingNever(text) == FALSE

\* if (!message), if (!question): absent or empty
Missing(text) == text = ""

\* res.status(code).json({ error })
Fail(r, code, msg) == [r EXCEPT !.pc = "done", !.status = code, !.error = msg]

InFlight(i) == reqs[i].pc # "done"

Quiescent == \A i \in 1..Len(reqs) : ~InFlight(i)

-----------------------------------------------------------------------------
(* MemoryVectorStore.similaritySearch(query, k): the k best-ranked vectors. *)
(* The rank is the embedding collaborator's: the model lets it follow the   *)
(* insertion order or its reverse.                                          *)

Rankings == {"insertion", "reverse"}

SimilaritySearch(ranking, k) ==
  LET ranked == IF ranking = "insertion" THEN vectorStore
                ELSE Reverse(vectorStore)
  IN  SubSeq(ranked, 1, Min(k, Len(ranked)))

-----------------------------------------------------------------------------
(* Get or create the user's BufferMemory.  Returns the map and the heap     *)
(* after `if (!userMemories.has(userId)) userMemories.set(userId, new ...)` *)

\* a memory map that gives a new session to every user at once
GetOrCreateShared(um, heap, u) ==
  IF um[u] # 0 THEN [map |-> um, heap |-> heap]
  ELSE [map |-> [v \in Users |-> Len(heap) + 1], heap |-> Append(heap, <<>>)]

GetOrCreate(um, heap, u) ==
  IF um[u] # 0 THEN [map |-> um, heap |-> heap]
  ELSE [map |-> [um EXCEPT ![u] = Len(heap) + 1], heap |-> Append(heap, <<>>)]

\* a chat that ignores clearMemory
ClearNever(um, u, clear) == um

\* if (clearMemory && userMemories.has(userId)) userMemories.delete(userId)
ClearIfAsked(um, u, clear) ==
  IF clear /\ um[u] # 0 THEN [um EXCEPT ![u] = 0] ELSE um

\* a memory that puts the newest turn first
SaveContextNewestFirst(history, input, output) ==
  <<HumanMessage(input), AIMessage(output)>> \o history

\* a memory that keeps only the assistant's side of a turn
SaveContextReplyOnly(history, input, output) ==
  history \o <<AIMessage(output)>>

\* a memory that stores the reply before the message it answers
SaveContextReplyFirst(history, input, output) ==
  history \o <<AIMessage(output), HumanMessage(input)>>

\* BaseChatMemory.saveContext: the human message, then the AI message
SaveContext(history, input, output) ==
  history \o <<HumanMessage(input), AIMessage(output)>>

-----------------------------------------------------------------------------
(* POST /api/chat *)

ChatHasReadyCheck == build \in ApiBuilds

ChatStart(message, userIn, clear) ==
  LET u  == DefaultUser(userIn)
      r0 == [EmptyReq EXCEPT !.op = "chat", !.userId = u, !.input = message,
                             !.clearMemory = clear]
      um1 == ClearIfAsked(userMemories, u, clear)
      gc == GetOrCreate(um1, chatHistory, u)
      mem == gc.map[u]
  IN  /\ UNCHANGED <<envVars, storeVars>>
      /\ IF Missing(message)
         THEN /\ reqs' = Append(reqs, Fail(r0, 400, "No message provided"))
              /\ UNCHANGED sessionVars
         ELSE IF ChatHasReadyCheck /\ ~ready
         THEN /\ reqs' = Append(reqs, Fail(r0, 503, "LangChain not initialized"))
              /\ UNCHANGED sessionVars
         ELSE /\ userMemories' = gc.map
              /\ chatHistory' = gc.heap
              /\ IF ~ready
                 THEN \* new ConversationChain({ llm: undefined }) throws
                      reqs' = Append(reqs, Fail(r0, 500, "Chat failed"))
                 ELSE \* chain.call loads the history, then awaits the model
                      reqs' = Append(reqs, [r0 EXCEPT !.pc = "generating",
                                                      !.memory = mem,
                                                      !.seen = gc.heap[mem]])

\* chain.call resolves: saveContext, then the response
ChatGenOk(i, reply) ==
  /\ reqs[i].op = "chat" /\ reqs[i].pc = "generating"
  /\ LET r == reqs[i]
         h == SaveContext(chatHistory[r.memory], <<r.input>>, reply)
     IN  /\ chatHistory' = [chatHistory EXCEPT ![r.memory] = h]
         /\ reqs' = [reqs EXCEPT ![i] =
                       [r EXCEPT !.pc = "done", !.status = 200,
                                 !.answer = reply, !.memoryLength = Len(h)]]
  /\ UNCHANGED <<userMemories, envVars, storeVars>>

\* a chat that stores the user's message before the model answers
ChatGenFailKeepsInput(i) ==
  /\ reqs[i].op = "chat" /\ reqs[i].pc = "generating"
  /\ chatHistory' = [chatHistory EXCEPT ![reqs[i].memory] =
                        Append(@, HumanMessage(<<reqs[i].input>>))]
  /\ reqs' = [reqs EXCEPT ![i] =
                [Fail(@, 500, "Chat failed") EXCEPT !.genError = TRUE]]
  /\ UNCHANGED <<userMemories, envVars, storeVars>>

\* chain.call rejects: catch (e) { res.status(500) "Chat failed" }
ChatGenFail(i) ==
  /\ reqs[i].op = "chat" /\ reqs[i].pc = "generating"
  /\ reqs' = [reqs EXCEPT ![i] =
                [Fail(@, 500, "Chat failed") EXCEPT !.genError = TRUE]]
  /\ UNCHANGED <<sessionVars, envVars, storeVars>>

-----------------------------------------------------------------------------
(* POST /api/ask *)

AskHasReadyCheck == build # "server"

AskTopK == IF build = "server" THEN AskKServer ELSE AskK

AskAbsorbsSearchError == build # "server"

AskDegrades == build = "server_rev"

AskGenError == IF build = "server" THEN "RAG query failed" ELSE "AI generation failed"

\* "NO DOCUMENT CONTEXT AVAILABLE." stands where no chunk was retrieved
NoContext ==
  [file |-> "NO DOCUMENT CONTEXT AVAILABLE.", page |-> 0, from |-> 0, to |-> 0]

\* the context block of the prompt, one entry per retrieved chunk
Context(docs) ==
  LET blocks == [j \in 1..Len(docs) |->
                   [source |-> docs[j].source, pageContent |-> docs[j].pageContent]]
  IN  IF blocks = <<>> /\ build = "api_rev"
      THEN <<[source |-> "", pageContent |-> NoContext]>>
      ELSE blocks

RagPrompt(docs, question) ==
  <<"CONTEXT FROM DOCUMENTS:", Context(docs), "USER QUESTION:", question>>

AskStart(question, userIn) ==
  LET u  == DefaultUser(userIn)
      r0 == [EmptyReq EXCEPT !.op = "ask", !.userId = u, !.input = question]
  IN  /\ reqs' = Append(reqs,
           IF Missing(question) THEN Fail(r0, 400, "No question provided")
           ELSE IF AskHasReadyCheck /\ ~ready
                THEN Fail(r0, 503, "LangChain not initialized")
                ELSE [r0 EXCEPT !.pc = "searching"])
      /\ UNCHANGED <<sessionVars, envVars, storeVars>>

\* after the search: get or create the memory, build the chain, call it
AskCallChain(i, docs, failed) ==
  LET r  == reqs[i]
      gc == GetOrCreate(userMemories, chatHistory, r.userId)
      mem == gc.map[r.userId]
  IN  /\ UNCHANGED <<envVars, storeVars>>
      /\ userMemories' = gc.map
      /\ chatHistory' = gc.heap
      /\ reqs' = [reqs EXCEPT ![i] =
                    [r EXCEPT !.pc = "generating", !.relevantDocs = docs,
                              !.searchError = failed,
                              !.memory = mem, !.seen = gc.heap[mem]]]

AskSearchOk(i, ranking) ==
  /\ reqs[i].op = "ask" /\ reqs[i].pc = "searching"
  /\ AskCallChain(i, SimilaritySearch(ranking, AskTopK), FALSE)

AskSearchFail(i) ==
  /\ reqs[i].op = "ask" /\ reqs[i].pc = "searching"
  /\ IF AskAbsorbsSearchError
     THEN AskCallChain(i, <<>>, TRUE)
     ELSE /\ reqs' = [reqs EXCEPT ![i] =
                        [Fail(@, 500, "RAG query failed") EXCEPT !.searchError = TRUE]]
          /\ UNCHANGED <<sessionVars, envVars, storeVars>>

Sources(docs) ==
  [j \in 1..Len(docs) |-> [source |-> docs[j].source, chunkId |-> docs[j].chunkId]]

AskGenOk(i, reply) ==
  /\ reqs[i].op = "ask" /\ reqs[i].pc = "generating"
  /\ LET r == reqs[i]
         h == SaveContext(chatHistory[r.memory],
                          RagPrompt(r.relevantDocs, r.input), reply)
     IN  /\ chatHistory' = [chatHistory EXCEPT ![r.memory] = h]
         /\ reqs' = [reqs EXCEPT ![i] =
                       [r EXCEPT !.pc = "done", !.status = 200, !.answer = reply,
                                 !.sources = Sources(r.relevantDocs),
                                 !.relevantChunks = Len(r.relevantDocs)]]
  /\ UNCHANGED <<userMemories, envVars, storeVars>>

\* chain.call rejects, or (server_rev) the 10 s abort fires first
AskGenFail(i) ==
  /\ reqs[i].op = "ask" /\ reqs[i].pc = "generating"
  /\ LET r == reqs[i]
     IN  reqs' = [reqs EXCEPT ![i] =
           IF AskDegrades
           THEN [r EXCEPT !.pc = "done", !.status = 200, !.genError = TRUE,
                          !.answer = Degraded,
                          !.sources = Sources(r.relevantDocs),
                          !.relevantChunks = Len(r.relevantDocs)]
           ELSE [Fail(r, 500, AskGenError) EXCEPT !.genError = TRUE]]
  /\ UNCHANGED <<sessionVars, envVars, storeVars>>

-----------------------------------------------------------------------------
(* GET and DELETE /api/memory *)

MemoryHasReadyCheck == build \in ApiBuilds

\* the servers route /api/memory/:userId only: without a user id no route
\* matches and express answers 404
MemoryUnrouted(userIn) == userIn = Undefined /\ build \notin ApiBuilds

MemoryGet(userIn) ==
  LET u  == DefaultUser(userIn)
      r0 == [EmptyReq EXCEPT !.op = "getMemory", !.userId = u]
      h  == SessionHistory(u)
  IN  /\ reqs' = Append(reqs,
           IF MemoryHasReadyCheck /\ ~ready
           THEN Fail(r0, 503, "LangChain not initialized")
           ELSE IF MemoryUnrouted(userIn) THEN Fail(r0, 404, "Cannot GET /api/memory/")
           ELSE [r0 EXCEPT !.status = 200, !.memoryLength = Len(h),
                           !.seen = SubSeq(h, Len(h) + 1 - Min(RecentMessages, Len(h)), Len(h)),
                           !.success = userMemories[u] # 0])
      /\ UNCHANGED <<sessionVars, envVars, storeVars>>

MemoryDelete(userIn) ==
  LET missing == userIn = Undefined /\ build \in ApiBuilds
      u  == DefaultUser(userIn)
      r0 == [EmptyReq EXCEPT !.op = "clearMemory", !.userId = u]
  IN  /\ UNCHANGED <<chatHistory, envVars, storeVars>>
      /\ IF MemoryHasReadyCheck /\ ~ready
         THEN /\ reqs' = Append(reqs, Fail(r0, 503, "LangChain not initialized"))
              /\ UNCHANGED userMemories
         ELSE IF missing
         THEN /\ reqs' = Append(reqs, Fail(r0, 400, "userId is required"))
              /\ UNCHANGED userMemories
         ELSE IF MemoryUnrouted(userIn)
         THEN /\ reqs' = Append(reqs, Fail(r0, 404, "Cannot DELETE /api/memory/"))
              /\ UNCHANGED userMemories
         ELSE /\ reqs' = Append(reqs, [r0 EXCEPT !.status = 200,
                                                 !.success = userMemories[u] # 0])
              /\ userMemories' = [userMemories EXCEPT ![u] = 0]

-----------------------------------------------------------------------------
(* RecursiveCharacterTextSplitter({ chunkSize: 1000, chunkOverlap: 200 }).   *)
(* The splitter cuts a text at the first of "\n\n", "\n", " ", "" that it   *)
(* holds, each piece keeping the separator before it, and merges the pieces *)
(* shorter than chunkSize into chunks (mergeSplits): a chunk is closed when *)
(* the next piece would take it beyond chunkSize, and the next chunk starts *)
(* with the longest tail of whole pieces that is at most chunkOverlap long. *)

\* the "\n\n" between two paragraphs, as a piece of text
Separator == [file |-> "\n\n", page |-> 0, from |-> 0, to |-> 2]

RECURSIVE Sum(_)
Sum(s) == IF s = <<>> THEN 0 ELSE s[1] + Sum(Tail(s))

\* the length of the text of a page
PageLength(page) == Sum(page) + Separator.to * (Len(page) - 1)

\* the length of the text of all pages of a file
FileLength(file) == Sum([p \in 1..Len(file.pages) |-> PageLength(file.pages[p])])

\* a text without separators is cut into characters: windows of chunkSize
\* characters, each starting chunkSize - chunkOverlap after the one before;
\* an empty text gives none
ChunkCount(len) ==
  IF len = 0 THEN 0
  ELSE IF len <= chunkSize THEN 1
  ELSE ((len - chunkSize) + (chunkSize - chunkOverlap) - 1)
          \div (chunkSize - chunkOverlap) + 1

SplitCharacters(len) ==
  [j \in 1..ChunkCount(len) |->
     [from |-> (j - 1) * (chunkSize - chunkOverlap),
      to   |-> Min((j - 1) * (chunkSize - chunkOverlap) + chunkSize, len)]]

\* the length of piece k of a page: the paragraph and the separator kept
\* before it
PieceLength(page, k) == page[k] + (IF k > 1 THEN Separator.to ELSE 0)

\* the length of the pieces lo..hi
PiecesLength(page, lo, hi) ==
  Sum([k \in 1..(hi - lo + 1) |-> PieceLength(page, lo + k - 1)])

\* the offset in the text at which paragraph k starts
ParagraphStart(page, k) == PiecesLength(page, 1, k) - page[k]

\* joinDocs: the pieces lo..hi as one text, trimmed
JoinDocs(page, lo, hi) ==
  [from |-> ParagraphStart(page, lo), to |-> ParagraphStart(page, hi) + page[hi]]

\* after a chunk is closed: drop pieces from its front while those left are
\* longer than chunkOverlap, or too long to take piece d as well
KeptFrom(page, lo, d) ==
  CHOOSE k \in lo..d :
     /\ LET total == PiecesLength(page, k, d - 1)
        IN  ~(\/ total > chunkOverlap
              \/ total + PieceLength(page, d) > chunkSize /\ total > 0)
     /\ \A n \in lo..(k - 1) :
          LET total == PiecesLength(page, n, d - 1)
          IN  \/ total > chunkOverlap
              \/ total + PieceLength(page, d) > chunkSize /\ total > 0

\* mergeSplits: piece d is next, the current chunk holds the pieces lo..d-1
RECURSIVE MergeSplits(_, _, _)
MergeSplits(page, lo, d) ==
  IF d > Len(page) THEN <<JoinDocs(page, lo, d - 1)>>
  ELSE IF lo < d /\ PiecesLength(page, lo, d - 1) + PieceLength(page, d) > chunkSize
       THEN <<JoinDocs(page, lo, d - 1)>> \o MergeSplits(page, KeptFrom(page, lo, d), d + 1)
       ELSE MergeSplits(page, lo, d + 1)

\* splitText: a page of one paragraph is cut into characters, a page of
\* several paragraphs (each shorter than chunkSize) at its "\n\n"
SplitText(page) ==
  IF Len(page) = 1 THEN SplitCharacters(page[1])
  ELSE MergeSplits(page, 1, 2)

\* textSplitter.splitDocuments(docs): the chunks of every page, page by page
RECURSIVE SplitPages(_, _)
SplitPages(file, p) ==
  IF p > Len(file.pages) THEN <<>>
  ELSE LET cs == SplitText(file.pages[p])
       IN  [j \in 1..Len(cs) |->
              [file |-> file.id, page |-> p, from |-> cs[j].from, to |-> cs[j].to]]
           \o SplitPages(file, p + 1)

SplitDocuments(file) == SplitPages(file, 1)

\* splitDocs.map((d, idx) => ({ ...d, metadata: { source, chunkId: uuidv4(),
\* chunkIndex: idx } })), the ids drawn after `drawn` earlier ones
DocsWithMeta(splitDocs, source, drawn) ==
  [j \in 1..Len(splitDocs) |->
     [pageContent |-> splitDocs[j], source |-> source,
      chunkId |-> drawn + j, chunkIndex |-> j - 1]]

-----------------------------------------------------------------------------
(* POST /api/upload: a PDF (multipart) or, in the api builds, a text *)

UploadHasReadyCheck == build # "server"

\* the formidable drafts copy the upload to /tmp and stat it for its size
UploadUsesTmpFile(kind) == build \in ApiBuilds /\ kind = "pdf"

\* f.originalFilename || "uploaded.pdf", req.file.originalname, filename
UploadSource(kind, file) ==
  IF UploadUsesTmpFile(kind) /\ file.filename = "" THEN "uploaded.pdf"
  ELSE file.filename

UploadError == IF build \in ApiBuilds THEN "Upload failed" ELSE "PDF processing failed"

Uploads == {i \in 1..Len(reqs) : reqs[i].op = "upload"}

UploadStart(kind, file, fault) ==
  LET r0 == [EmptyReq EXCEPT !.op = "upload", !.kind = kind, !.file = file]
      noText == file = NoFile \/ file.pages = <<>> \/ PageLength(file.pages[1]) = 0
      splitDocs == SplitDocuments(file)
      docs == DocsWithMeta(splitDocs, UploadSource(kind, file), uuid)
      embed == [r0 EXCEPT !.pc = "embedding", !.docsWithMeta = docs,
                          !.chunks = Len(splitDocs)]
      early ==
        IF kind = "text"
        THEN IF ~ready THEN Fail(r0, 503, "LangChain not initialized")
             ELSE IF noText THEN Fail(r0, 400, "No text provided")
             ELSE embed
        ELSE IF build \in ApiBuilds
        THEN IF ~ready THEN Fail(r0, 503, "LangChain not initialized")
             ELSE IF file = NoFile THEN Fail(r0, 400, "No file uploaded")
             ELSE IF fault = "copy" THEN Fail(r0, 500, "Upload failed")
             ELSE IF fault = "load"
                  THEN IF build = "api_rev" THEN Fail(r0, 400, "Failed to read PDF")
                       ELSE Fail(r0, 500, "Upload failed")
             ELSE IF build = "api_rev" /\ file.pages = <<>>
                  THEN Fail(r0, 400, "PDF has no readable content")
             ELSE embed
        ELSE IF file = NoFile THEN Fail(r0, 400, "No file uploaded")
             ELSE IF UploadHasReadyCheck /\ ~ready
                  THEN Fail(r0, 503, "LangChain not initialized")
             ELSE IF fault = "load" THEN Fail(r0, 500, UploadError)
             ELSE embed
  IN  /\ kind = "text" => (build \in ApiBuilds /\ fault = "none" /\ file \in Texts \cup {NoFile})
      /\ kind = "pdf" => file \in Files \cup {NoFile}
      /\ fault = "copy" => build \in ApiBuilds
      /\ reqs' = Append(reqs, early)
      /\ uuid' = IF early.pc = "embedding" THEN uuid + Len(splitDocs) ELSE uuid
      /\ UNCHANGED <<envVars, sessionVars, vectorStore, documentsMetadata>>

\* a registry keyed by filename: a second upload of a name replaces the first
RegisterByName(meta, r, id) ==
  LET rec == [id |-> id, filename |-> UploadSource(r.kind, r.file),
              chunks |-> r.chunks, size |-> FileLength(r.file)]
      same == {j \in 1..Len(meta) : meta[j].filename = rec.filename}
  IN  IF same = {} THEN Append(meta, rec)
      ELSE [j \in 1..Len(meta) |-> IF j \in same THEN rec ELSE meta[j]]

\* a registry that lists the newest record first
RegisterNewestFirst(meta, r, id) ==
  <<[id |-> id, filename |-> UploadSource(r.kind, r.file),
     chunks |-> r.chunks, size |-> FileLength(r.file)]>> \o meta

\* cache.documentsMetadata.set(documentId, { id, filename, chunks, size })
Register(meta, r, id) ==
  Append(meta, [id |-> id, filename |-> UploadSource(r.kind, r.file),
                chunks |-> r.chunks, size |-> FileLength(r.file)])

\* a store that holds the documents of the last call only
AddDocumentsReplacing(store, docs) == docs

\* MemoryVectorStore.addDocuments -> addVectors: the vectors are appended
AddDocuments(store, docs) == store \o docs

\* vectorStore.addDocuments resolves: every chunk is in the store
UploadEmbedOk(i) ==
  /\ reqs[i].op = "upload" /\ reqs[i].pc = "embedding"
  /\ LET r == reqs[i]
         id == uuid + 1
     IN  /\ vectorStore' = AddDocuments(vectorStore, r.docsWithMeta)
         /\ uuid' = id
         /\ IF UploadUsesTmpFile(r.kind)
            THEN \* size: (await fs.stat(tmpPath)).size
                 /\ reqs' = [reqs EXCEPT ![i] = [r EXCEPT !.pc = "stat", !.documentId = id]]
                 /\ UNCHANGED documentsMetadata
            ELSE /\ documentsMetadata' = Register(documentsMetadata, r, id)
                 /\ reqs' = [reqs EXCEPT ![i] =
                               [r EXCEPT !.pc = "done", !.status = 200,
                                         !.success = TRUE, !.documentId = id]]
  /\ UNCHANGED <<envVars, sessionVars>>

\* the embedding request rejects: addDocuments throws, nothing was added
UploadEmbedFail(i) ==
  /\ reqs[i].op = "upload" /\ reqs[i].pc = "embedding"
  /\ reqs[i].docsWithMeta # <<>>
  /\ reqs' = [reqs EXCEPT ![i] = Fail(@, 500, UploadError)]
  /\ UNCHANGED <<envVars, sessionVars, storeVars>>

UploadStatOk(i) ==
  /\ reqs[i].op = "upload" /\ reqs[i].pc = "stat"
  /\ documentsMetadata' = Register(documentsMetadata, reqs[i], reqs[i].documentId)
  /\ reqs' = [reqs EXCEPT ![i] = [@ EXCEPT !.pc = "done", !.status = 200, !.success = TRUE]]
  /\ UNCHANGED <<envVars, sessionVars, vectorStore, uuid>>

\* fs.stat rejects: catch (error) { res.status(500) "Upload failed" }
UploadStatFail(i) ==
  /\ reqs[i].op = "upload" /\ reqs[i].pc = "stat"
  /\ reqs' = [reqs EXCEPT ![i] = [Fail(@, 500, "Upload failed") EXCEPT !.statError = TRUE]]
  /\ UNCHANGED <<envVars, sessionVars, storeVars>>

-----------------------------------------------------------------------------
(* POST /api/summarize.  A text is a sequence of pieces: stretches of an    *)
(* uploaded page, a literal text, and the "\n\n" that join() puts between.  *)

Literal(len) == [file |-> "text", page |-> 0, from |-> 0, to |-> len]

\* documentChunks.map(c => c.pageContent).join("\n\n")
Join(chunks) ==
  [j \in 1..(2 * Len(chunks) - 1) |->
     IF j % 2 = 1 THEN chunks[(j + 1) \div 2].pageContent ELSE Separator]

\* the length of the pieces lo..hi of a text, by halves
RECURSIVE LengthOf(_, _, _)
LengthOf(t, lo, hi) ==
  IF lo > hi THEN 0
  ELSE IF lo = hi THEN t[lo].to - t[lo].from
  ELSE LengthOf(t, lo, (lo + hi) \div 2) + LengthOf(t, (lo + hi) \div 2 + 1, hi)

\* text.length
TextLength(t) == LengthOf(t, 1, Len(t))

\* a substring that cuts nothing
SubstringWhole(t, n) == t

\* text.substring(0, n)
RECURSIVE Substring(_, _)
Substring(t, n) ==
  IF t = <<>> \/ n <= 0 THEN <<>>
  ELSE LET len == t[1].to - t[1].from
       IN  IF len >= n THEN <<[t[1] EXCEPT !.to = t[1].from + n]>>
           ELSE <<t[1]>> \o Substring(Tail(t), n - len)

SummarizeHasReadyCheck == build \in ApiBuilds

SummarizeTopK == IF build \in ApiBuilds THEN SummarizeK ELSE SummarizeKServer

SummarizeError == IF build \in ApiBuilds THEN "Summary failed" ELSE "Summarization failed"

SummarizeNoContent ==
  IF build \in ApiBuilds THEN "No content for document"
  ELSE "No content found for this document"

\* a registry whose lookup answers with whatever it holds
DocumentAny(id) == documentsMetadata

\* documentsMetadata.get(documentId): the records with that id (none or one)
Document(id) == SelectSeq(documentsMetadata, LAMBDA d : d.id = id)

\* the text is settled: refuse an empty one, else cut it and call the model
SummarizeInvoke(r, text) ==
  IF TextLength(text) = 0 THEN Fail(r, 400, "No text available to summarize")
  ELSE IF ~ready THEN Fail(r, 500, SummarizeError)
  ELSE [r EXCEPT !.pc = "generating", !.textToSummarize = text,
                 !.inputText = Substring(text, SummaryLimit),
                 !.originalLength = TextLength(text)]

\* the documentId of a request: none (0), a registered one, or an unknown one
DocumentIds ==
  {0, uuid + 1} \cup {documentsMetadata[j].id : j \in 1..Len(documentsMetadata)}

\* textLen = 0: no text in the body; docIn = 0: no documentId in the body
SummarizeStart(textLen, docIn) ==
  LET r0 == [EmptyReq EXCEPT !.op = "summarize", !.documentId = docIn,
                             !.kind = IF docIn # 0 THEN "document" ELSE "text"]
  IN  /\ reqs' = Append(reqs,
           IF textLen = 0 /\ docIn = 0 THEN Fail(r0, 400, "Provide text or documentId")
           ELSE IF SummarizeHasReadyCheck /\ ~ready
                THEN Fail(r0, 503, "LangChain not initialized")
           ELSE IF docIn # 0
                THEN IF Document(docIn) = <<>> THEN Fail(r0, 404, "Document not found")
                     ELSE [r0 EXCEPT !.pc = "searching"]
           ELSE SummarizeInvoke(r0, <<Literal(textLen)>>))
      /\ UNCHANGED <<envVars, sessionVars, storeVars>>

\* a filter that keeps the chunks the document's own upload wrote
DocumentChunksOwn(allDocs, document) ==
  SelectSeq(allDocs, LAMBDA d : /\ d.chunkId < document.id
                                /\ d.chunkId >= document.id - document.chunks)

\* allDocs.filter(d => d.metadata?.source === document.filename)
DocumentChunks(allDocs, document) ==
  SelectSeq(allDocs, LAMBDA d : d.source = document.filename)

\* similaritySearch("", k) resolves: keep the chunks of the document's file
SummarizeSearchOk(i, ranking) ==
  /\ reqs[i].op = "summarize" /\ reqs[i].pc = "searching"
  /\ LET r == reqs[i]
         document == Document(r.documentId)[1]
         allDocs == SimilaritySearch(ranking, SummarizeTopK)
         documentChunks == DocumentChunks(allDocs, document)
     IN  reqs' = [reqs EXCEPT ![i] =
           IF documentChunks = <<>> THEN Fail(r, 404, SummarizeNoContent)
           ELSE SummarizeInvoke([r EXCEPT !.documentChunks = documentChunks],
                                Join(documentChunks))]
  /\ UNCHANGED <<envVars, sessionVars, storeVars>>

\* the search rejects.  The api drafts await it outside any try: the handler
\* rejects and writes no response.  The servers answer from their catch.
SummarizeSearchFail(i) ==
  /\ reqs[i].op = "summarize" /\ reqs[i].pc = "searching"
  /\ reqs' = [reqs EXCEPT ![i] =
       IF build \in ApiBuilds
       THEN [@ EXCEPT !.pc = "done", !.searchError = TRUE, !.error = "unhandled rejection"]
       ELSE [Fail(@, 500, SummarizeError) EXCEPT !.searchError = TRUE]]
  /\ UNCHANGED <<envVars, sessionVars, storeVars>>

SummarizeGenOk(i, reply) ==
  /\ reqs[i].op = "summarize" /\ reqs[i].pc = "generating"
  /\ reqs' = [reqs EXCEPT ![i] = [@ EXCEPT !.pc = "done", !.status = 200,
                                           !.answer = reply]]
  /\ UNCHANGED <<envVars, sessionVars, storeVars>>

\* a summarize that answers a failed generation with a fallback text
SummarizeGenDegrades(i) ==
  /\ reqs[i].op = "summarize" /\ reqs[i].pc = "generating"
  /\ reqs' = [reqs EXCEPT ![i] = [@ EXCEPT !.pc = "done", !.status = 200,
                                           !.genError = TRUE, !.answer = Degraded]]
  /\ UNCHANGED <<envVars, sessionVars, storeVars>>

SummarizeGenFail(i) ==
  /\ reqs[i].op = "summarize" /\ reqs[i].pc = "generating"
  /\ reqs' = [reqs EXCEPT ![i] = [Fail(@, 500, SummarizeError) EXCEPT !.genError = TRUE]]
  /\ UNCHANGED <<envVars, sessionVars, storeVars>>

-----------------------------------------------------------------------------
(* GET /api/documents *)

DocumentsHasReadyCheck == build \in ApiBuilds

Documents ==
  LET r0 == [EmptyReq EXCEPT !.op = "documents"]
  IN  /\ reqs' = Append(reqs,
           IF DocumentsHasReadyCheck /\ ~ready
           THEN Fail(r0, 503, "LangChain not initialized")
           ELSE [r0 EXCEPT !.status = 200, !.documents = documentsMetadata])
      /\ UNCHANGED <<envVars, sessionVars, storeVars>>

-----------------------------------------------------------------------------
(* The express bootstraps of the api modules: api/index.js and the root     *)
(* server.js (unnamed/part_000).  The router stack holds the layers in the  *)
(* order of their registration, and a request goes to the first layer that  *)
(* matches it and answers.  cors, express.json and express.static pass an   *)
(* API request on and are left out of the stack.                            *)

\* the api modules whose routes the bootstraps load, in the order of server.js
ApiModules == <<"chat", "documents", "memory">>

ApiPath(m) ==
  CASE m = "chat" -> "/api/chat"
    [] m = "documents" -> "/api/documents"
    [] m = "memory" -> "/api/memory"

\* no bootstrap has run: the platform calls the api modules directly
NotStarted ==
  [file |-> "none", stack |-> <<>>, importing |-> {}, loading |-> <<>>,
   listening |-> FALSE]

Layer(method, path, target) == [method |-> method, path |-> path, target |-> target]

Health == Layer("GET", "/api/health", "health")

\* api/index.js runs: health, import(...) of every module started, the
\* frontend route, the 404 handler, listen
BootIndex ==
  /\ app.file = "none" /\ build \in ApiBuilds
  /\ app' = [file |-> "index",
             stack |-> <<Health, Layer("GET", "/", "frontend"),
                         Layer("USE", "", "notFound")>>,
             importing |-> {ApiModules[k] : k \in 1..Len(ApiModules)},
             loading |-> <<>>,
             listening |-> TRUE]
  /\ UNCHANGED <<build, ready, sessionVars, storeVars, reqs>>

\* import(modulePath).then(module => app.use(`/api/${moduleName}`, ...))
ImportResolved(m) ==
  /\ app.file = "index" /\ m \in app.importing
  /\ app' = [app EXCEPT !.importing = @ \ {m},
                        !.stack = Append(@, Layer("USE", ApiPath(m), m))]
  /\ UNCHANGED <<build, ready, sessionVars, storeVars, reqs>>

\* server.js runs: health, the frontend route for every path, and
\* setupRoutes() up to its first await
BootServer ==
  /\ app.file = "none" /\ build \in ApiBuilds
  /\ app' = [file |-> "server",
             stack |-> <<Health, Layer("GET", "*", "frontend")>>,
             importing |-> {},
             loading |-> ApiModules,
             listening |-> FALSE]
  /\ UNCHANGED <<build, ready, sessionVars, storeVars, reqs>>

\* app.post / app.get / app.delete of a module in setupRoutes
RoutesOf(m) ==
  CASE m = "chat" -> <<Layer("POST", ApiPath(m), m)>>
    [] m = "documents" -> <<Layer("GET", ApiPath(m), m)>>
    [] m = "memory" -> <<Layer("GET", ApiPath(m), m), Layer("DELETE", ApiPath(m), m)>>

\* an await import(...) of setupRoutes resolves: the module's routes are added
LoadRoute ==
  /\ app.file = "server" /\ app.loading # <<>>
  /\ app' = [app EXCEPT !.loading = Tail(@),
                        !.stack = @ \o RoutesOf(Head(app.loading))]
  /\ UNCHANGED <<build, ready, sessionVars, storeVars, reqs>>

\* an import rejects: the catch of setupRoutes logs it, no further route
LoadFail ==
  /\ app.file = "server" /\ app.loading # <<>>
  /\ app' = [app EXCEPT !.loading = <<>>]
  /\ UNCHANGED <<build, ready, sessionVars, storeVars, reqs>>

\* setupRoutes().then(() => app.listen(PORT))
Listen ==
  /\ app.file = "server" /\ app.loading = <<>> /\ ~app.listening
  /\ app' = [app EXCEPT !.listening = TRUE]
  /\ UNCHANGED <<build, ready, sessionVars, storeVars, reqs>>

\* the layer takes a request of this method and path
Matches(layer, method, path) ==
  /\ layer.method \in {"USE", method}
  /\ layer.path \in {"", "*", path}

\* the target of the first layer that matches; none: express answers 404
Dispatch(stack, method, path) ==
  LET hits == {k \in 1..Len(stack) : Matches(stack[k], method, path)}
  IN  IF hits = {} THEN "unmatched"
      ELSE stack[CHOOSE k \in hits : \A n \in hits : k <= n].target

\* a route of an api module is in the stack for this method and path
Registered(stack, method, path) ==
  \E k \in 1..Len(stack) :
     /\ Matches(stack[k], method, path)
     /\ \E n \in 1..Len(ApiModules) : stack[k].target = ApiModules[n]

\* the requests sent to the server, by method and path
RequestLines ==
  { <<"POST", "/api/chat">>, <<"GET", "/api/documents">>,
    <<"GET", "/api/memory">>, <<"DELETE", "/api/memory">>, <<"GET", "/">> }

\* the listening server takes a request and hands it to the router
Request(method, path) ==
  /\ app.listening
  /\ reqs' = Append(reqs,
        [EmptyReq EXCEPT !.op = "request", !.kind = method, !.input = path,
                         !.success = Registered(app.stack, method, path),
                         !.answer = Dispatch(app.stack, method, path)])
  /\ UNCHANGED <<envVars, sessionVars, storeVars>>

-----------------------------------------------------------------------------
Init ==
  /\ build \in Builds
  /\ ready \in BOOLEAN
  /\ build = "server" => ready
  /\ userMemories = [u \in Users |-> 0]
  /\ chatHistory = <<>>
  /\ vectorStore = <<>>
  /\ documentsMetadata = <<>>
  /\ uuid = 0
  /\ reqs = <<>>
  /\ app = NotStarted

Arrive(max) == Len(reqs) < max

Next ==
  \/ \E m \in Messages, u \in UserInputs, c \in BOOLEAN :
        Arrive(MaxCalls) /\ ChatStart(m, u, c)
  \/ \E q \in Questions, u \in UserInputs : Arrive(MaxCalls) /\ AskStart(q, u)
  \/ \E u \in UserInputs : Arrive(MaxCalls) /\ MemoryGet(u)
  \/ \E u \in UserInputs : Arrive(MaxCalls) /\ MemoryDelete(u)
  \/ \E i \in 1..Len(reqs), a \in Replies : ChatGenOk(i, a)
  \/ \E i \in 1..Len(reqs) : ChatGenFail(i)
  \/ \E i \in 1..Len(reqs), k \in Rankings : AskSearchOk(i, k)
  \/ \E i \in 1..Len(reqs) : AskSearchFail(i)
  \/ \E i \in 1..Len(reqs), a \in Replies : AskGenOk(i, a)
  \/ \E i \in 1..Len(reqs) : AskGenFail(i)

Spec == Init /\ [][Next]_vars

\* one request at a time: a request arrives only when every other has returned
ArriveSeq == Quiescent /\ Len(reqs) < MaxSeqCalls

NextSeq ==
  \/ \E m \in Messages, u \in UserInputs, c \in BOOLEAN :
        ArriveSeq /\ ChatStart(m, u, c)
  \/ \E q \in Questions, u \in UserInputs : ArriveSeq /\ AskStart(q, u)
  \/ \E u \in UserInputs : ArriveSeq /\ MemoryGet(u)
  \/ \E u \in UserInputs : ArriveSeq /\ MemoryDelete(u)
  \/ \E i \in 1..Len(reqs), a \in Replies : ChatGenOk(i, a)
  \/ \E i \in 1..Len(reqs) : ChatGenFail(i)
  \/ \E i \in 1..Len(reqs), k \in Rankings : AskSearchOk(i, k)
  \/ \E i \in 1..Len(reqs) : AskSearchFail(i)
  \/ \E i \in 1..Len(reqs), a \in Replies : AskGenOk(i, a)
  \/ \E i \in 1..Len(reqs) : AskGenFail(i)

SpecSeq == Init /\ [][NextSeq]_vars

\* ingestion, retrieval and summaries: MaxRagCalls requests, MaxUploads uploads
ArriveRag == Len(reqs) < MaxRagCalls

NextRag ==
  \/ \E k \in {"pdf", "text"}, f \in Files \cup Texts \cup {NoFile}, x \in Faults :
        ArriveRag /\ Cardinality(Uploads) < MaxUploads /\ UploadStart(k, f, x)
  \/ \E u \in UserInputs : ArriveRag /\ AskStart("what is RAG", u)
  \/ \E t \in SummaryTexts, d \in DocumentIds : ArriveRag /\ SummarizeStart(t, d)
  \/ ArriveRag /\ Documents
  \/ \E i \in 1..Len(reqs) : UploadEmbedOk(i)
  \/ \E i \in 1..Len(reqs) : UploadEmbedFail(i)
  \/ \E i \in 1..Len(reqs) : UploadStatOk(i)
  \/ \E i \in 1..Len(reqs) : UploadStatFail(i)
  \/ \E i \in 1..Len(reqs), k \in Rankings : AskSearchOk(i, k)
  \/ \E i \in 1..Len(reqs) : AskSearchFail(i)
  \/ \E i \in 1..Len(reqs), a \in Replies : AskGenOk(i, a)
  \/ \E i \in 1..Len(reqs) : AskGenFail(i)
  \/ \E i \in 1..Len(reqs), k \in Rankings : SummarizeSearchOk(i, k)
  \/ \E i \in 1..Len(reqs) : SummarizeSearchFail(i)
  \/ \E i \in 1..Len(reqs), a \in Replies : SummarizeGenOk(i, a)
  \/ \E i \in 1..Len(reqs) : SummarizeGenFail(i)

SpecRag == Init /\ [][NextRag]_vars

-----------------------------------------------------------------------------
(* The time budget of the generation.  The model client of api/_init.js and *)
(* of the revised server is built with timeout: 30000, and the revised      *)
(* server also aborts chain.call after 10 s; api/server.js sets neither.    *)
(* A timer that was set fires; the collaborator itself may never respond.   *)

GenHasTimeBudget == build # "server"

\* the budget runs out before a response: chain.call rejects, the catch runs
AskGenTimeout(i) ==
  /\ i <= Len(reqs)
  /\ GenHasTimeBudget
  /\ AskGenFail(i)

NextLive ==
  \/ \E m \in Messages, u \in UserInputs, c \in BOOLEAN :
        Arrive(MaxCalls) /\ ChatStart(m, u, c)
  \/ \E q \in Questions, u \in UserInputs : Arrive(MaxCalls) /\ AskStart(q, u)
  \/ \E u \in UserInputs : Arrive(MaxCalls) /\ MemoryGet(u)
  \/ \E u \in UserInputs : Arrive(MaxCalls) /\ MemoryDelete(u)
  \/ \E i \in 1..Len(reqs), a \in Replies : ChatGenOk(i, a)
  \/ \E i \in 1..Len(reqs) : ChatGenFail(i)
  \/ \E i \in 1..Len(reqs), k \in Rankings : AskSearchOk(i, k)
  \/ \E i \in 1..Len(reqs) : AskSearchFail(i)
  \/ \E i \in 1..Len(reqs), a \in Replies : AskGenOk(i, a)
  \/ \E i \in 1..Len(reqs) : AskGenFail(i)
  \/ \E i \in 1..Len(reqs) : AskGenTimeout(i)

\* the event loop runs every timer that is due
SpecLive ==
  Init /\ [][NextLive]_vars /\ \A i \in 1..MaxCalls : WF_vars(AskGenTimeout(i))

NextBoot ==
  \/ BootIndex
  \/ BootServer
  \/ \E m \in app.importing : ImportResolved(m)
  \/ LoadRoute
  \/ LoadFail
  \/ Listen
  \/ \E line \in RequestLines : Arrive(MaxCalls) /\ Request(line[1], line[2])

SpecBoot == Init /\ [][NextBoot]_vars

-----------------------------------------------------------------------------
(* Properties of the conversational memory *)

\* request k is a chat or ask call of user u whose generation succeeded
Answered(k, u) ==
  /\ reqs[k].op \in {"chat", "ask"} /\ reqs[k].userId = u
  /\ reqs[k].pc = "done" /\ reqs[k].status = 200 /\ ~reqs[k].genError

\* the content chain.call was given as input by request k
InputOf(k) ==
  IF reqs[k].op = "chat" THEN <<reqs[k].input>>
  ELSE RagPrompt(reqs[k].relevantDocs, reqs[k].input)

\* the (user message, assistant reply) pairs of u's answered calls among the
\* first n requests, in call order
RECURSIVE Turns(_, _)
Turns(u, n) ==
  IF n = 0 THEN <<>>
  ELSE IF Answered(n, u)
       THEN Turns(u, n - 1) \o <<HumanMessage(InputOf(n)), AIMessage(reqs[n].answer)>>
       ELSE Turns(u, n - 1)

AnsweredBefore(k, u) == {j \in 1..(k - 1) : Answered(j, u)}

\* some request asked to clear u's memory
Cleared(u) ==
  \E k \in 1..Len(reqs) :
     /\ reqs[k].userId = u
     /\ \/ reqs[k].op = "clearMemory"
        \/ reqs[k].op = "chat" /\ reqs[k].clearMemory

C1_State ==
  \A u \in Users : ~Cleared(u) =>
     /\ SessionHistory(u) = Turns(u, Len(reqs))
     /\ \A k \in 1..Len(reqs) :
          /\ (reqs[k].op = "getMemory" /\ reqs[k].userId = u /\ reqs[k].status = 200)
               => reqs[k].memoryLength = 2 * Cardinality(AnsweredBefore(k, u))
          /\ (reqs[k].op = "chat" /\ Answered(k, u))
               => reqs[k].memoryLength = 2 * Cardinality(AnsweredBefore(k + 1, u))

C1_Step ==
  /\ \A m \in 1..Len(chatHistory) : IsPrefix(chatHistory[m], chatHistory'[m])
  /\ \A u \in Users :
       (userMemories[u] # 0 /\ userMemories'[u] = userMemories[u])
          => IsPrefix(SessionHistory(u), SessionHistory(u)')

\* C1: sequential calls, no clear: after n answered chat calls of a user the
\* session holds the n (user message, reply) pairs in call order, getMemory
\* reports 2n messages, and every step only extends a history at its end.
C1_SequentialChatHistory == [][C1_State' /\ C1_Step]_vars

\* two answered chat calls of one user, then getMemory reporting 4
C1_Witness ==
  \E u \in Users : \E k \in 1..Len(reqs) :
     /\ ~Cleared(u)
     /\ reqs[k].op = "getMemory" /\ reqs[k].userId = u /\ reqs[k].memoryLength = 4
     /\ Cardinality({j \in AnsweredBefore(k, u) : reqs[j].op = "chat"}) = 2

\* request i is an ask call that returns an answer (status 200) in this step
AskReturnsAnswer(i) ==
  /\ reqs[i].op = "ask" /\ reqs[i].pc = "generating"
  /\ reqs'[i].pc = "done" /\ reqs'[i].status = 200

\* C2 as stated: every ask call that returns an answer to the caller increases
\* the user's session length by exactly 2.
C2_EveryAnswerAddsTwo ==
  [][\A i \in 1..Len(reqs) : AskReturnsAnswer(i) =>
        Len(SessionHistory(reqs[i].userId)') = Len(SessionHistory(reqs[i].userId)) + 2]_vars

\* C2 amended: sequential calls: an ask call whose generation succeeds increases
\* the user's session length by exactly 2; one that returns the degraded-mode
\* answer leaves it unchanged.
C2_GeneratedAnswerAddsTwo ==
  [][\A i \in 1..Len(reqs) : AskReturnsAnswer(i) =>
        Len(SessionHistory(reqs[i].userId)') =
           Len(SessionHistory(reqs[i].userId)) + (IF reqs'[i].genError THEN 0 ELSE 2)]_vars

\* two answered ask calls of one user, the session at 4 messages
C2_Witness ==
  \E u \in Users : \E j, k \in 1..Len(reqs) :
     /\ j < k /\ reqs[j].op = "ask" /\ reqs[k].op = "ask"
     /\ Answered(j, u) /\ Answered(k, u)
     /\ Len(SessionHistory(u)) = 4

\* request i is a chat or ask call whose generation succeeds in this step
GenerationSucceeds(i) ==
  /\ reqs[i].op \in {"chat", "ask"} /\ reqs[i].pc = "generating"
  /\ reqs'[i].pc = "done" /\ reqs'[i].status = 200 /\ ~reqs'[i].genError

WholeTurns(h) ==
  /\ Len(h) % 2 = 0
  /\ \A j \in 1..Len(h) : h[j].type = (IF j % 2 = 1 THEN "human" ELSE "ai")

EndsWith(h, t) == Len(h) >= Len(t) /\ SubSeq(h, Len(h) - Len(t) + 1, Len(h)) = t

\* C3: concurrent chat/ask calls (no other request): each call observed a
\* prior history of whole turns, and when it completes its user turn and its
\* assistant turn are in the user's session, contiguous: no turn is lost.
C3_ConcurrentTurnsKept ==
  [][\A i \in 1..Len(reqs) :
        ((\A j \in 1..Len(reqs) : reqs[j].op \in {"chat", "ask"}) /\ GenerationSucceeds(i))
        => /\ WholeTurns(reqs[i].seen)
           /\ EndsWith(SessionHistory(reqs[i].userId)',
                       <<HumanMessage(InputOf(i)), AIMessage(reqs'[i].answer)>>)]_vars

\* C5: after a successful ask(userId, q) the last two messages of the session
\* are a user message whose content is q itself and an assistant message whose
\* content is the answer returned.
C5_AskStoresQuery ==
  [][\A i \in 1..Len(reqs) : (reqs[i].op = "ask" /\ GenerationSucceeds(i)) =>
        EndsWith(SessionHistory(reqs[i].userId)',
                 <<HumanMessage(<<reqs[i].input>>), AIMessage(reqs'[i].answer)>>)]_vars

\* C6: an ask call whose generation failed or timed out returns the fixed
\* degraded-mode answer as a normal result.
C6_AskDegrades ==
  \A i \in 1..Len(reqs) : (reqs[i].op = "ask" /\ reqs[i].genError) =>
     reqs[i].status = 200 /\ reqs[i].answer = Degraded

\* C7: a chat call whose generation failed returns a degraded-mode answer as a
\* normal result, not an error.
C7_ChatDegrades ==
  \A i \in 1..Len(reqs) : (reqs[i].op = "chat" /\ reqs[i].genError) =>
     reqs[i].status = 200 /\ reqs[i].error = "" /\ reqs[i].answer # ""

\* C8: an ask call whose retrieval failed goes on to generation with an empty
\* context; it never fails for the retrieval, and the answer it returns has
\* zero sources and relevantChunks = 0.
C8_AskAbsorbsRetrievalFailure ==
  \A i \in 1..Len(reqs) : (reqs[i].op = "ask" /\ reqs[i].searchError) =>
     /\ reqs[i].relevantDocs = <<>>
     /\ reqs[i].pc = "done" =>
          \/ reqs[i].genError
          \/ reqs[i].status = 200 /\ reqs[i].sources = <<>> /\ reqs[i].relevantChunks = 0

-----------------------------------------------------------------------------
(* Properties of ingestion and summaries *)

ChunkIds(docs) == {docs[j].chunkId : j \in 1..Len(docs)}

Records(id) == {j \in 1..Len(documentsMetadata) : documentsMetadata[j].id = id}

\* C4: ingestion is all-or-nothing: a failed upload leaves none of its chunks
\* in the index and no record in the registry; a successful one leaves all its
\* chunks and exactly one record.
C4_IngestAllOrNothing ==
  \A i \in Uploads : reqs[i].pc = "done" =>
     IF reqs[i].status = 200
     THEN /\ ChunkIds(reqs[i].docsWithMeta) \subseteq ChunkIds(vectorStore)
          /\ Cardinality(Records(reqs[i].documentId)) = 1
     ELSE /\ ChunkIds(reqs[i].docsWithMeta) \cap ChunkIds(vectorStore) = {}
          /\ Records(reqs[i].documentId) = {}

\* request i is a summarize call by documentId whose search resolves in this step
Gathers(i) ==
  /\ reqs[i].op = "summarize" /\ reqs[i].pc = "searching"
  /\ reqs'[i].pc # "searching" /\ ~reqs'[i].searchError

\* the indexed chunks attributed to the document of request i
ChunksOf(i) ==
  LET name == Document(reqs[i].documentId)[1].filename
  IN  {vectorStore[j].chunkId : j \in {n \in 1..Len(vectorStore) : vectorStore[n].source = name}}

\* C9: summarize by documentId gathers every indexed chunk attributed to the
\* document, whatever the size of the index.
C9_SummarizeUsesEveryChunk ==
  [][\A i \in 1..Len(reqs) : Gathers(i) =>
        ChunksOf(i) \subseteq ChunkIds(reqs'[i].documentChunks)]_vars

\* C10: summarize by documentId concatenates the gathered chunks in ascending
\* chunk index.
C10_SummarizeInChunkOrder ==
  \A i \in 1..Len(reqs) : reqs[i].op = "summarize" =>
     \A j \in 1..(Len(reqs[i].documentChunks) - 1) :
        reqs[i].documentChunks[j].chunkIndex < reqs[i].documentChunks[j + 1].chunkIndex

\* the request that arrives in this step, if one does
Arrived == Len(reqs') = Len(reqs) + 1

NewReq == reqs'[Len(reqs')]

\* r ended as "not found" and the model was never invoked for it
NotFound(r) ==
  /\ r.pc = "done" /\ r.status = 404
  /\ r.inputText = <<>> /\ r.answer = ""

\* C11: (service initialized) summarize with a documentId that is not in the
\* registry ends 404, and so does one whose document has no matching chunk in
\* the index; in both cases the generation is never invoked.
C11_SummarizeNotFound ==
  [][/\ (Arrived /\ ready /\ NewReq.op = "summarize" /\ NewReq.kind = "document"
           /\ Records(NewReq.documentId) = {}) => NotFound(NewReq)
     /\ \A i \in 1..Len(reqs) : (Gathers(i) /\ ChunksOf(i) = {}) => NotFound(reqs'[i])]_vars

\* both cases happened: an unknown id, and a registered document without chunks
C11_Witness ==
  \E i, j \in 1..Len(reqs) :
     /\ reqs[i].op = "summarize" /\ reqs[i].error = "Document not found"
     /\ reqs[j].op = "summarize" /\ reqs[j].error = SummarizeNoContent
     /\ Records(reqs[j].documentId) # {}

\* C12: a summarize call whose generation fails ends with an error and carries
\* no summary text, for a literal text and for a documentId alike.
C12_SummarizeFailureIsHard ==
  \A i \in 1..Len(reqs) : (reqs[i].op = "summarize" /\ reqs[i].genError) =>
     /\ reqs[i].pc = "done" /\ reqs[i].status = 500
     /\ reqs[i].error = SummarizeError /\ reqs[i].answer = ""

\* the generation failed for a literal text and for a document
C12_Witness ==
  \E i, j \in 1..Len(reqs) :
     /\ reqs[i].op = "summarize" /\ reqs[i].kind = "text" /\ reqs[i].genError
     /\ reqs[j].op = "summarize" /\ reqs[j].kind = "document" /\ reqs[j].genError
     /\ reqs[j].documentChunks # <<>>

\* the text a is the first TextLength(a) characters of the text b
IsTextPrefix(a, b) ==
  /\ Len(a) <= Len(b)
  /\ \A j \in 1..Len(a) :
       IF j < Len(a) THEN a[j] = b[j]
       ELSE /\ a[j].file = b[j].file /\ a[j].page = b[j].page
            /\ a[j].from = b[j].from /\ a[j].to <= b[j].to

\* request i is a summarize call that invoked the model
Summarized(i) == reqs[i].op = "summarize" /\ reqs[i].textToSummarize # <<>>

\* C13: the text summarize hands to the model is exactly the first
\* min(L, 3000) characters of the resolved text of length L, and the
\* originalLength it reports is L.
C13_SummarizeTruncates ==
  \A i \in 1..Len(reqs) : Summarized(i) =>
     /\ IsTextPrefix(reqs[i].inputText, reqs[i].textToSummarize)
     /\ TextLength(reqs[i].inputText) =
           Min(TextLength(reqs[i].textToSummarize), SummaryLimit)
     /\ reqs[i].originalLength = TextLength(reqs[i].textToSummarize)

\* a summary of a text longer than the limit and one of a shorter document
C13_Witness ==
  \E i, j \in 1..Len(reqs) :
     /\ Summarized(i) /\ reqs[i].status = 200
     /\ TextLength(reqs[i].textToSummarize) > SummaryLimit
     /\ Summarized(j) /\ reqs[j].status = 200 /\ Len(reqs[j].documentChunks) > 1
     /\ TextLength(reqs[j].textToSummarize) < SummaryLimit

\* the upload has no text on any page (no page at all, or empty pages)
NoReadableText(file) == file # NoFile /\ FileLength(file) = 0

\* C14: an upload whose input has no text on any page fails, and registers
\* no (zero-chunk) document.
C14_EmptyUploadFails ==
  \A i \in Uploads : (reqs[i].pc = "done" /\ NoReadableText(reqs[i].file)) =>
     /\ reqs[i].status # 200
     /\ Records(reqs[i].documentId) = {}

\* request k cleared the session of user u
ClearsAt(k, u) ==
  /\ reqs[k].userId = u /\ reqs[k].pc = "done"
  /\ \/ reqs[k].op = "clearMemory" /\ reqs[k].status = 200
     \/ reqs[k].op = "chat" /\ reqs[k].clearMemory /\ reqs[k].status \notin {400, 503}

\* no call of u was answered after request k and before request j
NoTurnBetween(k, j, u) == \A m \in (k + 1)..(j - 1) : ~Answered(m, u)

\* C15: sequential calls: after a clear for a user the history is empty:
\* getMemory reports 0 messages and the first answered chat afterwards leaves
\* exactly 2 messages, whatever the length of the history before the clear.
C15_ClearEmptiesHistory ==
  \A u \in Users : \A k \in 1..Len(reqs) : ClearsAt(k, u) =>
     /\ Answered(k, u) => reqs[k].memoryLength = 2
     /\ (~Answered(k, u) /\ NoTurnBetween(k, Len(reqs) + 1, u)) => SessionHistory(u) = <<>>
     /\ \A j \in (k + 1)..Len(reqs) :
          (~Answered(k, u) /\ NoTurnBetween(k, j, u) /\ reqs[j].userId = u) =>
             /\ (reqs[j].op = "getMemory" /\ reqs[j].status = 200)
                   => reqs[j].memoryLength = 0 /\ reqs[j].seen = <<>>
             /\ (reqs[j].op = "chat" /\ Answered(j, u))
                   => reqs[j].memoryLength = 2

\* a user with a history clears it, and the next chat leaves 2 messages
C15_Witness ==
  \E u \in Users :
     /\ Len(reqs) = 3 /\ reqs[1].op = "chat" /\ Answered(1, u)
     /\ reqs[2].op = "clearMemory" /\ ClearsAt(2, u)
     /\ reqs[3].op = "chat" /\ Answered(3, u) /\ reqs[3].memoryLength = 2

\* upload i succeeded
Ingested(i) == i \in Uploads /\ reqs[i].pc = "done" /\ reqs[i].status = 200

FirstId(docs) == docs[1].chunkId

LastId(docs) == docs[Len(docs)].chunkId

\* the entries of the index that upload i wrote (the chunk ids of one call
\* are consecutive draws)
Written(i) ==
  IF reqs[i].docsWithMeta = <<>> THEN {}
  ELSE {n \in 1..Len(vectorStore) :
          /\ vectorStore[n].chunkId >= FirstId(reqs[i].docsWithMeta)
          /\ vectorStore[n].chunkId <= LastId(reqs[i].docsWithMeta)}

C16_State ==
  \A i, j \in Uploads : (i < j /\ Ingested(i) /\ Ingested(j)) =>
     /\ reqs[i].documentId # reqs[j].documentId
     /\ Cardinality(Records(reqs[i].documentId)) = 1
     /\ Cardinality(Records(reqs[j].documentId)) = 1
     /\ Written(i) \cap Written(j) = {}
     /\ Cardinality(Written(i)) = reqs[i].chunks
     /\ Cardinality(Written(j)) = reqs[j].chunks
     /\ Len(documentsMetadata) >= 2
     /\ Len(vectorStore) >= reqs[i].chunks + reqs[j].chunks

\* C16: two uploads of the same content under the same filename give two
\* distinct document ids, two registry records and twice the chunks in the
\* index; no upload reuses or overwrites a document id: the registry only
\* grows at its end.
C16_ReingestAddsAgain ==
  [][IsPrefix(documentsMetadata, documentsMetadata') /\ C16_State']_vars

\* the same file was uploaded twice: 2 records, twice its 3 chunks
C16_Witness ==
  \E i, j \in Uploads :
     /\ i < j /\ Ingested(i) /\ Ingested(j)
     /\ reqs[i].file = reqs[j].file /\ reqs[i].kind = reqs[j].kind
     /\ reqs[i].chunks = 3
     /\ Len(documentsMetadata) = 2 /\ Len(vectorStore) = 6

\* the registry record of upload i carries its filename and its chunk count
OwnRecord(i) ==
  \E n \in Records(reqs[i].documentId) :
     /\ documentsMetadata[n].chunks = Len(reqs[i].docsWithMeta)
     /\ documentsMetadata[n].filename = UploadSource(reqs[i].kind, reqs[i].file)

\* C17: two uploads of distinct documents, in any interleaving: once both
\* have succeeded the registry holds a record for each, with distinct ids and
\* the call's own chunk count, and the index holds each call's chunks exactly
\* once; when they are the only uploads the index is exactly their union.
C17_ConcurrentIngest ==
  \A i, j \in Uploads :
     (i < j /\ Ingested(i) /\ Ingested(j) /\ reqs[i].file # reqs[j].file) =>
        /\ reqs[i].documentId # reqs[j].documentId
        /\ OwnRecord(i) /\ OwnRecord(j)
        /\ Cardinality(Written(i)) = Len(reqs[i].docsWithMeta)
        /\ Cardinality(Written(j)) = Len(reqs[j].docsWithMeta)
        /\ ChunkIds(reqs[i].docsWithMeta) \cup ChunkIds(reqs[j].docsWithMeta)
              \subseteq ChunkIds(vectorStore)
        /\ Uploads = {i, j} =>
             Len(vectorStore) = Len(reqs[i].docsWithMeta) + Len(reqs[j].docsWithMeta)

\* two uploads overlapped: the one that arrived second was indexed first
C17_Witness ==
  \E i, j \in Uploads :
     /\ i < j /\ Ingested(i) /\ Ingested(j) /\ reqs[i].file # reqs[j].file
     /\ reqs[i].docsWithMeta # <<>> /\ reqs[j].docsWithMeta # <<>>
     /\ vectorStore[1].chunkId \in ChunkIds(reqs[j].docsWithMeta)

\* C18: a chat, ask, getMemory or clearMemory call without a user id acts on
\* the "default" session: it is never refused for the missing user id.
C18_AbsentUserIsDefault ==
  \A i \in 1..Len(reqs) :
     (reqs[i].op \in {"chat", "ask", "getMemory", "clearMemory"}
        /\ reqs[i].userId = "default" /\ reqs[i].pc = "done") =>
           /\ reqs[i].error # "userId is required"
           /\ reqs[i].status # 404

\* C19: a chat or ask call with a missing or empty message/question ends 400
\* at once: no session is created, no history changes, and neither the
\* search nor the generation is invoked.
C19_ValidationFirst ==
  [][(Arrived /\ NewReq.op \in {"chat", "ask"} /\ NewReq.input = "") =>
        /\ NewReq.pc = "done" /\ NewReq.status = 400
        /\ userMemories' = userMemories /\ chatHistory' = chatHistory
        /\ NewReq.memory = 0 /\ NewReq.relevantDocs = <<>> /\ NewReq.answer = ""]_vars

\* an empty chat message with clearMemory set was refused and the user's
\* earlier turn is still there
C19_Witness ==
  \E i \in 1..Len(reqs) :
     /\ reqs[i].op = "chat" /\ reqs[i].input = "" /\ reqs[i].clearMemory
     /\ reqs[i].status = 400
     /\ Len(SessionHistory(reqs[i].userId)) = 2

\* C20: while the collaborators are not initialized, every request that is
\* not refused for its input ends with the system-not-ready outcome (503),
\* never with a generic failure or an answer, and changes no state.
C20_NotReadyIsDistinct ==
  [][(Arrived /\ ~ready /\ NewReq.status \notin {400, 404}) =>
        /\ NewReq.pc = "done" /\ NewReq.status = 503
        /\ userMemories' = userMemories /\ chatHistory' = chatHistory
        /\ vectorStore' = vectorStore /\ documentsMetadata' = documentsMetadata]_vars

\* upload i registers its record in this step
Registers(i) == i \in Uploads /\ InFlight(i) /\ Ingested(i)'

\* C21: listDocuments returns the registered records in the order their
\* ingestion calls registered them, and a registered record is never modified
\* or removed: every step leaves the registry as it is or puts the record of
\* the upload that completes at its end.
C21_RegistryInOrder ==
  [][/\ IsPrefix(documentsMetadata, documentsMetadata')
     /\ Len(documentsMetadata') <= Len(documentsMetadata) + 1
     /\ \A i \in 1..Len(reqs) : Registers(i) =>
          /\ Len(documentsMetadata') = Len(documentsMetadata) + 1
          /\ documentsMetadata'[Len(documentsMetadata')].id = reqs'[i].documentId
     /\ (Arrived /\ NewReq.op = "documents" /\ NewReq.status = 200) =>
          NewReq.documents = documentsMetadata]_vars

\* a listing of two records, the one registered first bearing the later id
C21_Witness ==
  \E k \in 1..Len(reqs) :
     /\ reqs[k].op = "documents" /\ Len(reqs[k].documents) = 2
     /\ reqs[k].documents[1].id > reqs[k].documents[2].id
     /\ reqs[k].documents = documentsMetadata

\* C22: every ask call returns an outcome to its caller even if the
\* generation never responds: a call that awaits the generation eventually
\* ends.
C22_AskEventuallyReturns ==
  \A i \in 1..MaxCalls :
     (i <= Len(reqs) /\ reqs[i].op = "ask" /\ reqs[i].pc = "generating")
        ~> (i <= Len(reqs) /\ reqs[i].pc = "done")

\* the length of chunk j of upload i
ChunkLength(i, j) ==
  reqs[i].docsWithMeta[j].pageContent.to - reqs[i].docsWithMeta[j].pageContent.from

\* the characters that the chunks j and j + 1 of upload i share
Shared(i, j) ==
  reqs[i].docsWithMeta[j].pageContent.to - reqs[i].docsWithMeta[j + 1].pageContent.from

\* C23: ingesting a single text of length 2500 gives exactly 3 chunks in the
\* order of the text, each of at most 1000 characters, every two consecutive
\* chunks sharing at least 200 characters; and every chunk of a document but
\* its last has at most chunkSize characters.
C23_ChunksOverlap ==
  \A i \in Uploads : Ingested(i) =>
     /\ \A j \in 1..(reqs[i].chunks - 1) : ChunkLength(i, j) <= chunkSize
     /\ (Len(reqs[i].file.pages) = 1 /\ FileLength(reqs[i].file) = 2500) =>
          /\ reqs[i].chunks = 3
          /\ \A j \in 1..3 : ChunkLength(i, j) <= 1000
          /\ \A j \in 1..2 :
               /\ reqs[i].docsWithMeta[j].pageContent.from
                     < reqs[i].docsWithMeta[j + 1].pageContent.from
               /\ Shared(i, j) >= 200

\* the uploads m and n are registered under one filename, m as document id
SameName(m, n, id) ==
  /\ m \in Uploads /\ n \in Uploads /\ m # n
  /\ Ingested(m) /\ Ingested(n) /\ reqs[m].documentId = id
  /\ UploadSource(reqs[m].kind, reqs[m].file) = UploadSource(reqs[n].kind, reqs[n].file)

\* every chunk of upload n is a piece of the text
TextHolds(text, n) ==
  \A j \in 1..Len(reqs[n].docsWithMeta) :
     \E k \in 1..Len(text) : text[k] = reqs[n].docsWithMeta[j].pageContent

GenerationFails(i) ==
  /\ reqs[i].op \in {"chat", "ask"} /\ reqs[i].pc = "generating"
  /\ reqs'[i].pc = "done" /\ reqs'[i].genError

\* a request that asks to clear u's session arrives in this step
ClearArrives(u) ==
  /\ Arrived /\ NewReq.userId = u
  /\ \/ NewReq.op = "clearMemory"
     \/ NewReq.op = "chat" /\ NewReq.clearMemory

HoldsTurn(h, t) == \E k \in 1..(Len(h) - 1) : h[k] = t[1] /\ h[k + 1] = t[2]

\* C26: under any interleaving of chat, ask and clear, a call that completes
\* successfully is in the stored session when it returns: the session that
\* getMemory reads for its user holds the call's user message and reply, even
\* if a clear was issued while the call was in flight.
C26_CompletedCallIsStored ==
  [][\A i \in 1..Len(reqs) : GenerationSucceeds(i) =>
        HoldsTurn(SessionHistory(reqs[i].userId)',
                  <<HumanMessage(InputOf(i)), AIMessage(reqs'[i].answer)>>)]_vars

\* C27: under any interleaving of calls, the history of every session has
\* even length and alternates user message, assistant message, starting with
\* a user message; so does every memory a call still holds.
C27_HistoryAlternates ==
  /\ \A u \in Users : WholeTurns(SessionHistory(u))
  /\ \A m \in 1..Len(chatHistory) : WholeTurns(chatHistory[m])

\* two calls of one user overlapped (each loaded the empty history) and both
\* turns are in the session
C27_Witness ==
  \E u \in Users :
     /\ Len(reqs) = 2 /\ Answered(1, u) /\ Answered(2, u)
     /\ reqs[1].seen = <<>> /\ reqs[2].seen = <<>>
     /\ reqs[1].memory = reqs[2].memory
     /\ Len(SessionHistory(u)) = 4

\* no upload is suspended at an await
NoIngestionInProgress == \A i \in Uploads : ~InFlight(i)

\* the chunks that upload i wrote carry the sequence indexes 0..n-1 in order
IndexedInOrder(i) ==
  \A j \in 1..Len(reqs[i].docsWithMeta) : reqs[i].docsWithMeta[j].chunkIndex = j - 1

\* C28: whenever no ingestion call is in progress, the vector index holds as
\* many chunks as the registry records in total, and every record's chunk
\* count is the number of chunks its own call wrote, indexed 0..n-1 in order.
C28_IndexMatchesRegistry ==
  NoIngestionInProgress =>
     /\ Len(vectorStore) =
          Sum([j \in 1..Len(documentsMetadata) |-> documentsMetadata[j].chunks])
     /\ \A i \in Uploads : Ingested(i) =>
          /\ OwnRecord(i)
          /\ Cardinality(Written(i)) = Len(reqs[i].docsWithMeta)
          /\ IndexedInOrder(i)

\* the step is taken by a request of user u: it arrives, or it resumes
ActsFor(u) ==
  \/ Arrived /\ NewReq.userId = u
  \/ \E i \in 1..Len(reqs) : reqs'[i] # reqs[i] /\ reqs[i].userId = u

\* C29: sessions are isolated per user id: a step that creates, changes or
\* removes the session of a user is a step of a chat, ask, getMemory or clear
\* of that same user; no operation for a user touches another user's session.
C29_SessionsIsolated ==
  [][\A u \in Users :
        (userMemories'[u] # userMemories[u] \/ SessionHistory(u)' # SessionHistory(u))
           => ActsFor(u)]_vars

\* a user holds a turn, and a chat with clearMemory of another user was
\* answered without touching it
C29_Witness ==
  \E i, j \in 1..Len(reqs) :
     /\ i < j /\ reqs[i].userId # reqs[j].userId
     /\ reqs[i].op = "chat" /\ Answered(i, reqs[i].userId)
     /\ reqs[j].op = "chat" /\ reqs[j].clearMemory /\ Answered(j, reqs[j].userId)
     /\ SessionHistory(reqs[i].userId) =
           <<HumanMessage(InputOf(i)), AIMessage(reqs[i].answer)>>
     /\ Len(SessionHistory(reqs[j].userId)) = 2

\* C30: in each bootstrap, a request to a registered API path that the
\* server accepts goes to the handler of that path's module, never to a
\* catch-all (the 404 handler or the frontend fallback), whatever the order
\* of the route loading and the registration of the catch-all.
C30_ApiRoutesReachHandlers ==
  \A i \in 1..Len(reqs) : (reqs[i].op = "request" /\ reqs[i].success) =>
     /\ reqs[i].answer \notin {"notFound", "frontend", "unmatched"}
     /\ ApiPath(reqs[i].answer) = reqs[i].input

====
